---- MODULE Spec2Model ----
(***************************************************************************)
(* PaperLens: the chat with one paper (ChatModal), the selection and the   *)
(* comparison of papers (Dashboard), the API client they call, and the     *)
(* retrieval back end behind /api/fetch-paper, /api/ask-question and       *)
(* /api/compare-papers.  The front end is translated from its sources.     *)
(* The back end's code is not among the sources (backend/README.md lists   *)
(* its modules); its state machine follows sections 4.1-4.6 of the design. *)
(***************************************************************************)
EXTENDS Integers, Sequences, FiniteSets, TLC

----------------------------------------------------------------------------
(* Bounds of the model.                                                    *)

\* chats opened (ChatModal mounted) in one behaviour with questions
MaxChatOpens == 1
\* questions put in one chat
MaxAsks == 2
\* chats opened in one behaviour of preparations alone
MaxMounts == 2
\* comparisons started in one behaviour
MaxCompareRuns == 1
\* the hash seeds a server process can start with are 0..MaxSeed
MaxSeed == 3
\* calls of the external interface made by callers other than the front end
MaxCalls == 3
\* an index has up to MaxChunks chunks, with similarities 0..MaxSim
MaxChunks == 3
MaxSim == 2
\* result pages 1..MaxPage are searched for
MaxPage == 2

----------------------------------------------------------------------------
(* Values.                                                                 *)

\* undefined / null / '' : the falsy value of an absent field
None == "none"

\* a || b on values of which None is the only falsy one
Or(a, b) == IF a # None THEN a ELSE b

\* the paper objects the Dashboard holds (search results, history items):
\* url, pdf_url, paper.url (nested) and whether abstract is non-empty
Paper(n, u, p, nu, a) ==
    [name |-> n, url |-> u, pdf_url |-> p, nested |-> nu, abstract |-> a]

\* selectedPaper when no paper is selected (null)
NoPaper == Paper(None, None, None, None, FALSE)

PA == Paper("A", "u1", None, None, TRUE)
PB == Paper("B", None, "u2", None, TRUE)
PC == Paper("C", None, None, "u1", FALSE)
PD == Paper("D", None, None, None, FALSE)

Catalog == {PA, PB, PC, PD}

\* the papers that are asked questions: one with a URL and an abstract, one
\* with a nested URL and no abstract, one with neither
ChatPapers == {PA, PC, PD}

URLs == {"u1", "u2"}

\* String.prototype.trim on the inputs the model types
Trim(s) == CASE s = " "    -> ""
             [] s = " q "  -> "q"
             [] s = " ai " -> "ai"
             [] OTHER      -> s

Inputs == {"", " ", " q "}

\* the quick suggestions of the chat (part_002:188-193)
Templates == {"Summarize"}

\* comparison queries (App.jsx:790-797)
Queries == {"methods"}

\* ChatModal.jsx:28, App.jsx:367: paper.url || paper.pdf_url || paper.paper?.url
PdfUrl(paper) == Or(Or(paper.url, paper.pdf_url), paper.nested)

\* App.jsx:353: the key toggleSelectForCompare compares, p.url || p.pdf_url
SelectKey(p) == Or(p.url, p.pdf_url)

----------------------------------------------------------------------------
(* State.                                                                  *)

VARIABLES
    \* Dashboard (App.jsx:129-134,139)
    selectedPaper, showChat, selectedForCompare, compareLoading,
    compareResult, userPapers,
    \* ChatModal (part_002:5-10)
    messages, input, loading, paperReady, processingPaper, sourceType,
    \* instrumentation of the front end: the number of ChatModal mounts, the
    \* fetchPaper calls of the mounted chat, the number of comparisons
    \* started, the run in progress, and how the last runCompare call ended
    chatInst, fetchCalls, compareRuns, compare, lastCompare,
    \* requests and responses in flight between the API client and the server
    net,
    \* back end: per paper id the engine state and the vector index; the
    \* saved papers of the user
    store, saved,
    \* the server process: the seed of its string hash, and per URL the paper
    \* id computed when the URL was prepared and when it was last asked about
    hashSeed, preparedAs, askedAs,
    \* the number of calls made on the external interface directly
    calls,
    \* the last retrieval: the similarity of each chunk of the index to the
    \* question, top_k, and the chunks returned
    retrieval,
    \* the API client called on its own: localStorage under the search keys,
    \* Date.now(), and the last call with the request it issued
    cache, clock, call,
    \* the search of the Dashboard (App.jsx:125-151): its state, the
    \* fetchPapers calls that await their response, the number of calls
    \* made, the call made last, and per cache key the filters of the call
    \* that stored the entry
    dashboard, searches, searchCalls, lastSearch, storedFor,
    \* the Dashboard of pages/Dashboard.jsx:16-19 and the ResearchQuery
    \* component (README.md:167-170), each with the searchPapers call its
    \* handleSearch made last
    pagesDashboard, researchQuery,
    \* App (App.jsx:13-15) with the getIdToken calls that are pending, the
    \* number of auth state changes reported, the token the effect of the
    \* mounted Dashboard last ran with, and the request the Dashboard
    \* issued last
    auth, idTokens, authEvents, effectToken, lastFetch

dashVars == <<selectedPaper, showChat, selectedForCompare, compareLoading,
              compareResult, userPapers>>
chatVars == <<messages, input, loading, paperReady, processingPaper,
              sourceType>>
instrVars == <<chatInst, fetchCalls, compareRuns, compare, lastCompare>>
idVars == <<hashSeed, preparedAs, askedAs>>
apiVars == <<cache, clock, call>>
searchVars == <<dashboard, searches, searchCalls, lastSearch, storedFor,
                pagesDashboard, researchQuery>>
authVars == <<auth, idTokens, authEvents, effectToken, lastFetch>>
uiVars == <<searchVars, authVars>>
auxVars == <<idVars, calls, retrieval, apiVars, uiVars>>
backVars == <<store, saved, auxVars>>
appVars == <<dashVars, chatVars, instrVars, net, store, saved>>
vars == <<dashVars, chatVars, instrVars, net, backVars>>

----------------------------------------------------------------------------
(* The API client (services/api.js).  A call puts one request on the net;  *)
(* the awaiting caller continues when the request is "ok" (response.ok,    *)
(* the promise resolves with response.json()) or "fail" (the call throws). *)

NoResponse ==
    [error |-> None, source_type |-> None, answer |-> None, citation |-> None,
     disclaimer |-> None, handle |-> 0, comparison |-> None, papers |-> {}]

\* fetch(`${API_URL}${path}`, {method, headers, body}) of the caller
\* (owner, inst, slot)
Request(owner, inst, slot, path, method, body) ==
    [owner |-> owner, inst |-> inst, slot |-> slot, path |-> path,
     method |-> method, body |-> body, st |-> "sent", resp |-> NoResponse]

NoField == [pdf_url |-> None, abstract |-> FALSE, question |-> None,
            paper_ids |-> <<>>, urls |-> <<>>, paper |-> None,
            query |-> None, page |-> 0, page_size |-> 0, filters |-> {}]

fetchPaper(owner, inst, slot, pdfUrl, abstract) ==
    Request(owner, inst, slot, "/api/fetch-paper", "POST",
            [NoField EXCEPT !.pdf_url = pdfUrl, !.abstract = abstract])

askQuestion(owner, inst, slot, pdfUrl, question, abstract) ==
    Request(owner, inst, slot, "/api/ask-question", "POST",
            [NoField EXCEPT !.pdf_url = pdfUrl, !.question = question,
                            !.abstract = abstract])

comparePapers(owner, inst, paperIds, urls) ==
    Request(owner, inst, 0, "/api/compare-papers", "POST",
            [NoField EXCEPT !.paper_ids = paperIds, !.urls = urls])

savePaper(owner, inst, paper) ==
    Request(owner, inst, 0, "/api/user/save-paper", "POST",
            [NoField EXCEPT !.paper = paper])

\* mutant of getUserPapers: the papers are asked for with POST
getUserPapersByPost(owner, inst) ==
    Request(owner, inst, 0, "/api/user/papers", "POST", NoField)

getUserPapers(owner, inst) ==
    Request(owner, inst, 0, "/api/user/papers", "GET", NoField)

Respond(r, st, resp) == [r EXCEPT !.st = st, !.resp = resp]

Failure(err) == [NoResponse EXCEPT !.error = err]

Settled(r) == r.st \in {"ok", "fail"}

ChatCallers == {"initializePaper", "handleSendMessage", "quickAsk"}

\* the request r is awaited by the chat that is mounted now
Mounted(r) == r.owner \in ChatCallers /\ showChat /\ r.inst = chatInst

\* the call behind the request r still has a continuation that sets state:
\* a ChatModal that was closed is unmounted and what its pending calls bring
\* back is set on no component; once Promise.all has rejected, what the
\* other fetchPaper calls of the run bring back is dropped
Awaited(r) ==
    /\ r.owner \in ChatCallers => Mounted(r)
    /\ r.owner = "runCompare" => compareLoading /\ r.inst = compareRuns

\* the server is done with r: the settled request rr waits for its caller,
\* unless no caller is left
Deliver(r, rr) == IF Awaited(r) THEN (net \ {r}) \cup {rr} ELSE net \ {r}

\* the request r is replaced by rr
Replace(r, rr) == (net \ {r}) \cup {rr}

----------------------------------------------------------------------------
(* The back end (design 3, 4.1-4.6, 7).                                    *)

\* design 3: a deterministic identifier derived from source_url
PaperId(url) == "pid:" \o url

PaperIds == {PaperId(u) : u \in URLs}

FullText == {"full_text_pdf_primary", "full_text_pdf_secondary"}

\* what resolving, chunking and embedding one paper can come to (4.1-4.3)
Outcomes == {"primary", "secondary", "unreachable", "empty", "embed_fail"}

\* 4.1 resolve, 4.2 zero chunks: the source type of a finished build
SourceType(outcome, abstract) ==
    CASE outcome = "primary"   -> "full_text_pdf_primary"
      [] outcome = "secondary" -> "full_text_pdf_secondary"
      [] OTHER -> IF abstract THEN "metadata_only" ELSE "unavailable"

\* 4.5: ready (full text) or ready(degraded)
EngineState(src) == IF src \in FullText THEN "ready" ELSE "degraded"

\* an entry of the PaperId -> VectorIndex map, with the instrumentation of
\* 5: builds counts the embedding builds, hits the calls served by an index
\* that was there
Unbuilt ==
    [state |-> "unprepared", source_type |-> None, resident |-> FALSE,
     builds |-> 0, hits |-> 0, abstract |-> FALSE]

Prepared(e) == e.state \in {"ready", "degraded"}

\* 4.4 eviction: a dropped index is rebuilt transparently on next access
Touch(e) ==
    IF e.resident THEN e ELSE [e EXCEPT !.resident = TRUE, !.builds = @ + 1]

\* 6: prepare(paper_reference) -> { source_type, ready }, with the handle of
\* the index (the number of the build that made it)
PrepareResult(e) ==
    [NoResponse EXCEPT !.source_type = e.source_type, !.handle = e.builds]

\* 4.4: a build is started
StartBuild(e, abstract) ==
    [e EXCEPT !.state = "preparing", !.builds = @ + 1, !.abstract = abstract]

\* mutant of ensure_index: a caller that finds a build in flight starts its own
ensure_indexNoCoalescing(e, abstract) ==
    CASE Prepared(e) -> IF e.resident THEN [e EXCEPT !.hits = @ + 1]
                        ELSE Touch(e)
      [] OTHER -> StartBuild(e, abstract)

\* mutant of ensure_index: the index is built by every call
ensure_indexNoCache(e, abstract) ==
    CASE Prepared(e)           -> [e EXCEPT !.resident = TRUE, !.builds = @ + 1]
      [] e.state = "preparing" -> e
      [] OTHER -> StartBuild(e, abstract)

\* 4.4 ensure_index: an index that is built is returned (rebuilt if it was
\* dropped), a build in flight is joined, otherwise a build is started
ensure_index(e, abstract) ==
    CASE Prepared(e) -> IF e.resident THEN [e EXCEPT !.hits = @ + 1]
                        ELSE Touch(e)
      [] e.state = "preparing" -> e
      [] OTHER -> StartBuild(e, abstract)

\* POST /api/fetch-paper: prepare
Prepare(r) ==
    /\ r \in net /\ r.path = "/api/fetch-paper" /\ r.st = "sent"
    /\ LET id == PaperId(r.body.pdf_url)
           e  == ensure_index(store[id], r.body.abstract)
       IN /\ store' = [store EXCEPT ![id] = e]
          /\ net' = IF Prepared(e)
                    THEN Deliver(r, Respond(r, "ok", PrepareResult(e)))
                    ELSE Replace(r, [r EXCEPT !.st = "waiting"])
    /\ UNCHANGED <<dashVars, chatVars, instrVars, saved, auxVars>>

Waiters(id) ==
    {r \in net : /\ r.path = "/api/fetch-paper" /\ r.st = "waiting"
                 /\ PaperId(r.body.pdf_url) = id}

\* the end of a build: the index, or EmbeddingFailure (4.3, 7); every caller
\* that joined the build gets its result
BuildResult(e, outcome) ==
    IF outcome = "embed_fail"
    THEN [e EXCEPT !.state = "unprepared", !.abstract = FALSE]
    ELSE [e EXCEPT !.state = EngineState(SourceType(outcome, e.abstract)),
                   !.source_type = SourceType(outcome, e.abstract),
                   !.resident = TRUE, !.abstract = FALSE]

BuildFinish(id, outcome) ==
    /\ store[id].state = "preparing"
    /\ LET e == BuildResult(store[id], outcome)
           answer(r) == IF Prepared(e)
                        THEN Respond(r, "ok", PrepareResult(e))
                        ELSE Respond(r, "fail", Failure("EmbeddingFailure"))
       IN /\ store' = [store EXCEPT ![id] = e]
          /\ net' = (net \ Waiters(id)) \cup
                    {answer(r) : r \in {w \in Waiters(id) : Awaited(w)}}
    /\ UNCHANGED <<dashVars, chatVars, instrVars, saved, auxVars>>

\* 4.4 eviction under memory pressure
Evict(id) ==
    /\ Prepared(store[id]) /\ store[id].resident
    /\ store' = [store EXCEPT ![id].resident = FALSE]
    /\ UNCHANGED <<dashVars, chatVars, instrVars, net, saved, auxVars>>

\* 4.5 answer: a disclaimer in degraded mode, a citation when full text was
\* used; GenerationFailed for this turn only; NotReady before preparation
AnswerResult(e, generated) ==
    IF ~generated THEN Failure("GenerationFailed")
    ELSE [NoResponse EXCEPT
            !.answer = "answer",
            !.source_type = e.source_type,
            !.citation = IF e.state = "ready" THEN "chunks" ELSE None,
            !.disclaimer = IF e.state = "degraded"
                           THEN "limited data available" ELSE None]

\* mutant of Answer: NotReady only for a paper that no one has prepared, a
\* question that meets a build in flight is answered from what is there
AnswerWhilePreparing(r, generated) ==
    /\ r \in net /\ r.path = "/api/ask-question" /\ r.st = "sent"
    /\ LET id == PaperId(r.body.pdf_url)
           e  == store[id]
       IN IF e.state = "unprepared"
          THEN /\ net' = Deliver(r, Respond(r, "fail", Failure("NotReady")))
               /\ UNCHANGED store
          ELSE /\ store' = [store EXCEPT ![id] = e]
               /\ net' = Deliver(r, Respond(r,
                             IF generated THEN "ok" ELSE "fail",
                             AnswerResult(e, generated)))
    /\ UNCHANGED <<dashVars, chatVars, instrVars, saved, auxVars>>

\* POST /api/ask-question
Answer(r, generated) ==
    /\ r \in net /\ r.path = "/api/ask-question" /\ r.st = "sent"
    /\ LET id == PaperId(r.body.pdf_url)
           e  == store[id]
       IN IF ~Prepared(e)
          THEN /\ net' = Deliver(r, Respond(r, "fail", Failure("NotReady")))
               /\ UNCHANGED store
          ELSE /\ store' = [store EXCEPT ![id] = Touch(e)]
               /\ net' = Deliver(r, Respond(r,
                             IF generated THEN "ok" ELSE "fail",
                             AnswerResult(e, generated)))
    /\ UNCHANGED <<dashVars, chatVars, instrVars, saved, auxVars>>

\* POST /api/compare-papers: one synthesis over the papers (4.6)
Compare(r, generated) ==
    /\ r \in net /\ r.path = "/api/compare-papers" /\ r.st = "sent"
    /\ net' = Deliver(r,
         IF generated
         THEN Respond(r, "ok", [NoResponse EXCEPT !.comparison = "synthesis"])
         ELSE Respond(r, "fail", Failure("GenerationFailed")))
    /\ UNCHANGED <<dashVars, chatVars, instrVars, backVars>>

\* POST /api/user/save-paper
SavePaper(r) ==
    /\ r \in net /\ r.path = "/api/user/save-paper" /\ r.st = "sent"
    /\ saved' = saved \cup {r.body.paper}
    /\ net' = Deliver(r, Respond(r, "ok", NoResponse))
    /\ UNCHANGED <<dashVars, chatVars, instrVars, store, auxVars>>

\* GET /api/user/papers
UserPapers(r) ==
    /\ r \in net /\ r.path = "/api/user/papers" /\ r.st = "sent"
    /\ net' = Deliver(r, Respond(r, "ok", [NoResponse EXCEPT !.papers = saved]))
    /\ UNCHANGED <<dashVars, chatVars, instrVars, backVars>>

RagPaths == {"/api/fetch-paper", "/api/ask-question", "/api/compare-papers"}

\* a request that ends with !response.ok or a rejected fetch() for a reason
\* of the transport or the server (api.js:87-89 and alike)
RequestFails(r) ==
    /\ r \in net /\ r.st = "sent" /\ r.path \in RagPaths
    /\ net' = Deliver(r, Respond(r, "fail", Failure("http")))
    /\ UNCHANGED <<dashVars, chatVars, instrVars, backVars>>

----------------------------------------------------------------------------
(* ChatModal (part_002).  The modal covers the page: while a chat is shown *)
(* no other paper is opened, and a closed chat is unmounted, so that what  *)
(* its pending calls bring back is set on no component.                    *)

Msg(role, content) ==
    [role |-> role, content |-> content, sourceType |-> None,
     citation |-> None, disclaimer |-> None]

UserTurns(msgs) == Cardinality({i \in DOMAIN msgs : msgs[i].role = "user"})

\* part_002:5-10, the state of a ChatModal when it mounts
ChatMounts ==
    /\ messages' = <<>>
    /\ input' = ""
    /\ loading' = FALSE
    /\ paperReady' = FALSE
    /\ processingPaper' = TRUE
    /\ sourceType' = None

\* part_002:25-50, initializePaper up to its await: the requests it sends
InitRequests(paper, inst) ==
    IF PdfUrl(paper) = None THEN {}
    ELSE {fetchPaper("initializePaper", inst, 0, PdfUrl(paper), paper.abstract)}

\* part_002:13-15 and 25-50: the chat mounts and initializePaper runs up to
\* its await, or to its return when the paper has no URL
initializePaper(paper) ==
    /\ input' = ""
    /\ loading' = FALSE
    /\ paperReady' = FALSE
    /\ sourceType' = None
    /\ fetchCalls' = Cardinality(InitRequests(paper, chatInst + 1))
    /\ IF PdfUrl(paper) = None
       THEN /\ messages' = <<Msg("system", "no PDF URL found")>>
            /\ processingPaper' = FALSE
       ELSE /\ messages' = <<>>
            /\ processingPaper' = TRUE

\* App.jsx:338-349 handleAskQuestion, with the mount of the ChatModal it
\* shows (App.jsx:768-777)
handleAskQuestion(paper) ==
    /\ ~showChat
    /\ selectedPaper' = paper
    /\ showChat' = TRUE
    /\ chatInst' = chatInst + 1
    /\ initializePaper(paper)
    /\ net' = net \cup InitRequests(paper, chatInst + 1)
                  \cup {savePaper("handleAskQuestion", chatInst + 1, paper.name)}
    /\ UNCHANGED <<selectedForCompare, compareLoading, compareResult,
                   userPapers, compareRuns, compare, lastCompare, backVars>>

\* App.jsx:344-348: after savePaper, loadUserPapers, or the error is logged
savePaperSettled(r) ==
    /\ r \in net /\ r.owner = "handleAskQuestion" /\ Settled(r)
    /\ net' = (net \ {r}) \cup
              (IF r.st = "ok" THEN {getUserPapers("loadUserPapers", r.inst)}
               ELSE {})
    /\ UNCHANGED <<dashVars, chatVars, instrVars, backVars>>

\* App.jsx:153-160 loadUserPapers after its await
loadUserPapersSettled(r) ==
    /\ r \in net /\ r.owner = "loadUserPapers" /\ Settled(r)
    /\ userPapers' = IF r.st = "ok" THEN r.resp.papers ELSE userPapers
    /\ net' = net \ {r}
    /\ UNCHANGED <<selectedPaper, showChat, selectedForCompare,
                   compareLoading, compareResult, chatVars, instrVars,
                   backVars>>

\* App.jsx:772-775 onClose; the ChatModal unmounts
onClose ==
    /\ showChat
    /\ showChat' = FALSE
    /\ selectedPaper' = NoPaper
    /\ ChatMounts
    /\ fetchCalls' = 0
    /\ net' = {r \in net : ~(Mounted(r) /\ Settled(r))}
    /\ UNCHANGED <<selectedForCompare, compareLoading, compareResult,
                   userPapers, chatInst, compareRuns, compare, lastCompare,
                   backVars>>

\* part_002:51-69 and 77-79: fetchPaper resolved
initializePaperResolved(r) ==
    /\ r \in net /\ r.owner = "initializePaper" /\ Mounted(r) /\ r.st = "ok"
    /\ sourceType' = r.resp.source_type
    /\ paperReady' = TRUE
    /\ messages' = <<[Msg("assistant", "ready to answer questions")
                        EXCEPT !.sourceType = r.resp.source_type]>>
    /\ processingPaper' = FALSE
    /\ net' = net \ {r}
    /\ UNCHANGED <<dashVars, input, loading, instrVars, backVars>>

\* mutant of initializePaperRejected: no finally, a failed fetchPaper leaves
\* the processing indicator on
initializePaperRejectedNoFinally(r) ==
    /\ r \in net /\ r.owner = "initializePaper" /\ Mounted(r) /\ r.st = "fail"
    /\ messages' = <<Msg("system", "Failed to process the paper")>>
    /\ paperReady' = TRUE
    /\ net' = net \ {r}
    /\ UNCHANGED <<dashVars, input, loading, processingPaper, sourceType,
                   instrVars, backVars>>

\* mutant of initializePaperRejected: a failed fetchPaper leaves the chat not
\* ready for questions
initializePaperRejectedNotReady(r) ==
    /\ r \in net /\ r.owner = "initializePaper" /\ Mounted(r) /\ r.st = "fail"
    /\ messages' = <<Msg("system", "Failed to process the paper")>>
    /\ processingPaper' = FALSE
    /\ net' = net \ {r}
    /\ UNCHANGED <<dashVars, input, loading, paperReady, sourceType,
                   instrVars, backVars>>

\* part_002:70-79: fetchPaper threw
initializePaperRejected(r) ==
    /\ r \in net /\ r.owner = "initializePaper" /\ Mounted(r) /\ r.st = "fail"
    /\ messages' = <<Msg("system", "Failed to process the paper")>>
    /\ paperReady' = TRUE
    /\ processingPaper' = FALSE
    /\ net' = net \ {r}
    /\ UNCHANGED <<dashVars, input, loading, sourceType, instrVars, backVars>>

\* part_002:259-264: the input is typed into unless it is disabled
setInput(v) ==
    /\ showChat /\ ~(loading \/ ~paperReady)
    /\ v # input
    /\ input' = v
    /\ UNCHANGED <<dashVars, messages, loading, paperReady, processingPaper,
                   sourceType, instrVars, net, backVars>>

\* part_002:84: if (!input.trim() || loading || !paperReady) return
SendRefused(text, isLoading, ready) == text = "" \/ isLoading \/ ~ready

\* mutant of QuickRefused: the guard forgets paperReady
QuickRefusedNotReady(isLoading, ready) == isLoading

\* mutant of QuickRefused: the guard forgets loading
QuickRefusedWhileLoading(isLoading, ready) == ~ready

\* part_002:128: if (loading || !paperReady) return
QuickRefused(isLoading, ready) == isLoading \/ ~ready

\* part_002:82-105 handleSendMessage up to its await
handleSendMessage ==
    /\ showChat
    /\ IF SendRefused(Trim(input), loading, paperReady)
       THEN UNCHANGED <<input, messages, loading, net>>
       ELSE /\ input' = ""
            /\ messages' = Append(messages, Msg("user", Trim(input)))
            /\ loading' = TRUE
            /\ net' = net \cup
                 {askQuestion("handleSendMessage", chatInst, Len(messages),
                              PdfUrl(selectedPaper), Trim(input),
                              selectedPaper.abstract)}
    /\ UNCHANGED <<dashVars, paperReady, processingPaper, sourceType,
                   instrVars, backVars>>

\* part_002:127-143 quickAsk up to its await
quickAsk(template) ==
    /\ showChat
    /\ IF QuickRefused(loading, paperReady)
       THEN UNCHANGED <<input, messages, loading, net>>
       ELSE /\ input' = ""
            /\ messages' = Append(messages, Msg("user", template))
            /\ loading' = TRUE
            /\ net' = net \cup
                 {askQuestion("quickAsk", chatInst, Len(messages),
                              PdfUrl(selectedPaper), template,
                              selectedPaper.abstract)}
    /\ UNCHANGED <<dashVars, paperReady, processingPaper, sourceType,
                   instrVars, backVars>>

\* mutant of AnswerMessage: the disclaimer of the response is not kept
AnswerMessageNoDisclaimer(caller, resp) ==
    [role |-> "assistant", content |-> resp.answer,
     sourceType |-> resp.source_type, citation |-> resp.citation,
     disclaimer |-> None]

\* part_002:107-115 and 144-150: the message made of the response; quickAsk
\* keeps no citation and shows 'No answer.' for an empty answer
AnswerMessage(caller, resp) ==
    [role |-> "assistant",
     content |-> IF caller = "quickAsk" THEN Or(resp.answer, "No answer.")
                 ELSE resp.answer,
     sourceType |-> resp.source_type,
     citation |-> IF caller = "quickAsk" THEN None ELSE resp.citation,
     disclaimer |-> resp.disclaimer]

\* part_002:118-121 and 152
FailureMessage(caller) ==
    Msg("system", IF caller = "quickAsk"
                  THEN "Failed to get answer. Try again."
                  ELSE "Failed to get answer. Please try again.")

\* part_002:105-125 and 143-155: askQuestion resolved
askResolved(r) ==
    /\ r \in net /\ r.owner \in {"handleSendMessage", "quickAsk"}
    /\ Mounted(r) /\ r.st = "ok"
    /\ messages' = Append(messages, AnswerMessage(r.owner, r.resp))
    /\ loading' = FALSE
    /\ net' = net \ {r}
    /\ UNCHANGED <<dashVars, input, paperReady, processingPaper, sourceType,
                   instrVars, backVars>>

\* mutant of askRejected: no finally, loading is not reset
askRejectedKeepsLoading(r) ==
    /\ r \in net /\ r.owner \in {"handleSendMessage", "quickAsk"}
    /\ Mounted(r) /\ r.st = "fail"
    /\ messages' = Append(messages, FailureMessage(r.owner))
    /\ net' = net \ {r}
    /\ UNCHANGED <<dashVars, input, loading, paperReady, processingPaper,
                   sourceType, instrVars, backVars>>

\* mutant of askRejected: a failed question prepares the paper again
askRejectedRefetch(r) ==
    /\ r \in net /\ r.owner \in {"handleSendMessage", "quickAsk"}
    /\ Mounted(r) /\ r.st = "fail"
    /\ messages' = Append(messages, FailureMessage(r.owner))
    /\ loading' = FALSE
    /\ fetchCalls' = fetchCalls + 1
    /\ net' = (net \ {r}) \cup InitRequests(selectedPaper, chatInst)
    /\ UNCHANGED <<dashVars, input, paperReady, processingPaper, sourceType,
                   chatInst, compareRuns, compare, lastCompare, backVars>>

\* mutant of askRejected: a failed question is dropped without a notice
askRejectedSilent(r) ==
    /\ r \in net /\ r.owner \in {"handleSendMessage", "quickAsk"}
    /\ Mounted(r) /\ r.st = "fail"
    /\ loading' = FALSE
    /\ net' = net \ {r}
    /\ UNCHANGED <<dashVars, messages, input, paperReady, processingPaper,
                   sourceType, instrVars, backVars>>

\* part_002:116-124 and 151-155: askQuestion threw
askRejected(r) ==
    /\ r \in net /\ r.owner \in {"handleSendMessage", "quickAsk"}
    /\ Mounted(r) /\ r.st = "fail"
    /\ messages' = Append(messages, FailureMessage(r.owner))
    /\ loading' = FALSE
    /\ net' = net \ {r}
    /\ UNCHANGED <<dashVars, input, paperReady, processingPaper, sourceType,
                   instrVars, backVars>>

----------------------------------------------------------------------------
(* The comparison of selected papers (App.jsx:351-402, repeated in         *)
(* pages/Dashboard.jsx:84-135).                                            *)

\* compareResult: null, the response of compare-papers, or the failure text
NoResult == [comparison |-> None]
FailedResult == [comparison |-> "Comparison failed. Please try again."]

\* no runCompare call is in progress
Idle == [phase |-> "idle", valid |-> <<>>, query |-> None]

\* App.jsx:351-357 toggleSelectForCompare
toggleSelectForCompare(paper) ==
    /\ LET prev == selectedForCompare
           Same(p) == SelectKey(p) = SelectKey(paper)
           Other(p) == SelectKey(p) # SelectKey(paper)
       IN selectedForCompare' =
            IF \E i \in DOMAIN prev : Same(prev[i])
            THEN SelectSeq(prev, Other)
            ELSE Append(prev, paper)
    /\ UNCHANGED <<selectedPaper, showChat, compareLoading, compareResult,
                   userPapers, chatVars, instrVars, net, backVars>>

\* App.jsx:360: the selected papers that have a URL
Valid(sel) == LET HasUrl(p) == PdfUrl(p) # None IN SelectSeq(sel, HasUrl)

\* mutant of InsufficientPapers: one paper is enough
InsufficientPapersBelowOne(valid) == Len(valid) < 1

\* App.jsx:361: if (valid.length < 2) return
InsufficientPapers(valid) == Len(valid) < 2

\* App.jsx:366-376: one fetchPaper call per valid paper, under Promise.all
CompareFetches(valid, run) ==
    {fetchPaper("runCompare", run, i, PdfUrl(valid[i]), valid[i].abstract) :
        i \in DOMAIN valid}

\* App.jsx:378-392: paper_ids and papers_info, both made of the URLs
CompareUrls(valid) == [i \in DOMAIN valid |-> PdfUrl(valid[i])]

\* App.jsx:359-376 runCompare up to its first await; its buttons are
\* disabled while compareLoading (App.jsx:790-799)
runCompare(q) ==
    /\ ~compareLoading
    /\ LET valid == Valid(selectedForCompare) IN
       IF InsufficientPapers(valid)
       THEN /\ lastCompare' = "rejected"
            /\ UNCHANGED <<compareLoading, compareResult, compareRuns,
                           compare, net>>
       ELSE /\ compareLoading' = TRUE
            /\ compareResult' = NoResult
            /\ compareRuns' = compareRuns + 1
            /\ compare' = [phase |-> "fetching", valid |-> valid, query |-> q]
            /\ lastCompare' = "started"
            /\ net' = net \cup CompareFetches(valid, compareRuns + 1)
    /\ UNCHANGED <<selectedPaper, showChat, selectedForCompare, userPapers,
                   chatVars, chatInst, fetchCalls, backVars>>

\* the requests of the run in progress
OfRun == {r \in net : r.owner = "runCompare" /\ r.inst = compareRuns}

\* mutant of fetchAllResolved: comparePapers is called as soon as one
\* fetchPaper call has resolved
fetchAnyResolved ==
    /\ compareLoading /\ compare.phase = "fetching"
    /\ \E r \in OfRun : r.st = "ok"
    /\ compare' = [compare EXCEPT !.phase = "comparing"]
    /\ net' = (net \ {r \in OfRun : r.st = "ok"}) \cup
              {comparePapers("runCompare", compareRuns,
                             CompareUrls(compare.valid),
                             CompareUrls(compare.valid))}
    /\ UNCHANGED <<dashVars, chatVars, chatInst, fetchCalls, compareRuns,
                   lastCompare, backVars>>

\* App.jsx:376-394: Promise.all resolves, every fetchPaper call has resolved;
\* comparePapers is called
fetchAllResolved ==
    /\ compareLoading /\ compare.phase = "fetching"
    /\ \A r \in OfRun : r.st = "ok"
    /\ compare' = [compare EXCEPT !.phase = "comparing"]
    /\ net' = (net \ OfRun) \cup
              {comparePapers("runCompare", compareRuns,
                             CompareUrls(compare.valid),
                             CompareUrls(compare.valid))}
    /\ UNCHANGED <<dashVars, chatVars, chatInst, fetchCalls, compareRuns,
                   lastCompare, backVars>>

\* App.jsx:396-401 after a call of the run threw: catch and finally; what
\* the run still has on the net is awaited by no one
Caught(how) ==
    /\ compareResult' = FailedResult
    /\ compareLoading' = FALSE
    /\ compare' = Idle
    /\ lastCompare' = how
    /\ net' = {r \in net : ~(r \in OfRun /\ Settled(r))}
    /\ UNCHANGED <<selectedPaper, showChat, selectedForCompare, userPapers,
                   chatVars, chatInst, fetchCalls, compareRuns, backVars>>

\* App.jsx:376, 396-401: Promise.all rejects with the first fetchPaper call
\* that threw
fetchRejected(r) ==
    /\ compareLoading /\ compare.phase = "fetching"
    /\ r \in OfRun /\ r.st = "fail"
    /\ Caught("prepare_failed")

\* App.jsx:394-395, 399-401: comparePapers resolved
comparePapersResolved(r) ==
    /\ compareLoading /\ compare.phase = "comparing"
    /\ r \in OfRun /\ r.st = "ok"
    /\ compareResult' = [comparison |-> r.resp.comparison]
    /\ compareLoading' = FALSE
    /\ compare' = Idle
    /\ lastCompare' = "compared"
    /\ net' = net \ {r}
    /\ UNCHANGED <<selectedPaper, showChat, selectedForCompare, userPapers,
                   chatVars, chatInst, fetchCalls, compareRuns, backVars>>

\* App.jsx:394, 396-401: comparePapers threw
comparePapersRejected(r) ==
    /\ compareLoading /\ compare.phase = "comparing"
    /\ r \in OfRun /\ r.st = "fail"
    /\ Caught("compare_failed")

----------------------------------------------------------------------------
(* The paper id of the running back end, as runCompare describes it        *)
(* (App.jsx:378-384): abs(hash(url)) as string, Python's hash of a string, *)
(* which is keyed by a seed drawn when the process starts.                 *)

\* no id computed yet
NoId == -1

Code(url) == IF url = "u1" THEN 1 ELSE 2

\* Python's hash(url) in a process started with the seed: a signed value
\* that depends on both
Hash(url, seed) == ((5 * Code(url) + 3 * seed) % 16) - 8

Abs(x) == IF x < 0 THEN -x ELSE x

\* App.jsx:380: the backend uses abs(hash(url)) as string
get_paper_id_from_url(url, seed) == Abs(Hash(url, seed))

\* fetch-paper for the URL: the index is stored under the id of this process
PrepareId(url) ==
    /\ preparedAs' = [preparedAs EXCEPT
                         ![url] = get_paper_id_from_url(url, hashSeed)]
    /\ UNCHANGED <<appVars, uiVars, hashSeed, askedAs, calls, retrieval, apiVars>>

\* ask-question or compare-papers for a URL that was prepared: the index is
\* looked up under the id of this process
LookupId(url) ==
    /\ preparedAs[url] # NoId
    /\ askedAs' = [askedAs EXCEPT
                      ![url] = get_paper_id_from_url(url, hashSeed)]
    /\ UNCHANGED <<appVars, uiVars, hashSeed, preparedAs, calls, retrieval,
                   apiVars>>

\* the server process is started again, with another seed
Restart(seed) ==
    /\ seed # hashSeed
    /\ hashSeed' = seed
    /\ UNCHANGED <<appVars, uiVars, preparedAs, askedAs, calls, retrieval,
                   apiVars>>

----------------------------------------------------------------------------
(* Callers of the external interface (design 6) other than the front end:  *)
(* prepare and ask called in any order and concurrently.                   *)

\* the paper reference of a URL: the paper of u1 has an abstract
HasAbstract(url) == url = "u1"

\* prepare(paper_reference)
CallPrepare(url) ==
    /\ calls' = calls + 1
    /\ net' = net \cup {fetchPaper("caller", calls + 1, 0, url,
                                    HasAbstract(url))}
    /\ UNCHANGED <<dashVars, chatVars, instrVars, store, saved, idVars,
                   retrieval, apiVars, uiVars>>

\* ask(paper_id_context, question)
CallAsk(url) ==
    /\ calls' = calls + 1
    /\ net' = net \cup {askQuestion("caller", calls + 1, 0, url, "q", FALSE)}
    /\ UNCHANGED <<dashVars, chatVars, instrVars, store, saved, idVars,
                   retrieval, apiVars, uiVars>>

----------------------------------------------------------------------------
(* Retrieval (design 4.4 query).  The chunks of an index are numbered from *)
(* 1 in their original order; sims[i] is the similarity of chunk i to the  *)
(* question.                                                               *)

\* chunk i ranks before chunk j: higher similarity first, ties broken by the
\* higher index
BeforeTieHigher(sims, i, j) ==
    sims[i] > sims[j] \/ (sims[i] = sims[j] /\ i > j)

\* chunk i ranks before chunk j: higher similarity first, ties broken by the
\* lower index
Before(sims, i, j) ==
    sims[i] > sims[j] \/ (sims[i] = sims[j] /\ i < j)

\* the chunk of the set that ranks before all others
Best(sims, among) ==
    CHOOSE i \in among : \A j \in among \ {i} : Before(sims, i, j)

RECURSIVE Ranked(_, _, _)
\* the first k chunks of the set in rank order
Ranked(sims, among, k) ==
    IF k = 0 \/ among = {} THEN <<>>
    ELSE LET b == Best(sims, among)
         IN <<b>> \o Ranked(sims, among \ {b}, k - 1)

\* query(handle, question_text, top_k)
query(sims, top_k) == Ranked(sims, DOMAIN sims, top_k)

\* the indices and questions tried: every sequence of similarities
Indexes == UNION {[1..n -> 0..MaxSim] : n \in 0..MaxChunks}

\* one retrieval
Retrieve(sims, top_k) ==
    /\ retrieval' = [sims |-> sims, top_k |-> top_k,
                     chunks |-> query(sims, top_k)]
    /\ UNCHANGED <<appVars, uiVars, idVars, calls, apiVars>>

----------------------------------------------------------------------------
(* The API client called on its own (services/api.js:1-165): one call at a *)
(* time, with any arguments and token, against the search cache in         *)
(* localStorage and the clock.                                             *)

\* api.js:12: the cache is valid for 1 hour
TTL == 3600000

\* the values of Date.now() tried: they lie 1, TTL - 1 and TTL apart
Times == {0, 1, TTL}

\* the tokens the caller supplies
Tokens == {"t1", ""}

\* an argument that was not given (undefined)
NoNumber == -1

\* String.prototype.toLowerCase on the queries the model searches for
Lower(s) == IF s = "AI" THEN "ai" ELSE s

\* the queries searched for; None is a missing query
SearchQueries == {None, "", " ", "AI", " ai "}

\* api.js:36: { query, page = 1, pageSize = 5 }
SearchArgs ==
    [query : {None, "", " "}, page : {NoNumber}, pageSize : {NoNumber}]
    \cup [query : SearchQueries \ {None, "", " "},
          page : {NoNumber} \cup 1..MaxPage, pageSize : {NoNumber, 5}]

\* a default parameter value
Default(v, d) == IF v = NoNumber THEN d ELSE v

\* mutant of QueryMissing: the query is not trimmed
QueryMissingUntrimmed(q) == q = None \/ q = ""

\* api.js:37: !query || !query.trim()
QueryMissing(q) == q = None \/ q = "" \/ Trim(q) = ""

\* api.js:42-43: `search_${normalizedQuery}_${page}_${pageSize}`, which is
\* one to one on a query and two numbers
CacheKey(q, page, pageSize) ==
    <<"search", Trim(Lower(q)), page, pageSize>>

CacheKeys ==
    {CacheKey(q, p, 5) : q \in {"ai"}, p \in 1..MaxPage}

\* localStorage.getItem(key): nothing, a string JSON.parse or the
\* destructuring fails on, or what setCachedData stored
NoEntry == [kind |-> "none", data |-> None, timestamp |-> 0]
Unreadable == [kind |-> "unreadable", data |-> None, timestamp |-> 0]
Entry(data, now) == [kind |-> "entry", data |-> data, timestamp |-> now]

\* api.js:8 localStorage.getItem(key): null for a key never stored
getItem(c, key) == IF key \in DOMAIN c THEN c[key] ELSE NoEntry

\* mutant of getCachedData: an entry of exactly one hour is still valid
getCachedDataInclusive(c, key, now) ==
    IF getItem(c, key).kind = "entry" /\ now - getItem(c, key).timestamp <= TTL
    THEN getItem(c, key).data ELSE None

\* api.js:6-20 getCachedData
getCachedData(c, key, now) ==
    IF getItem(c, key).kind = "entry" /\ now - getItem(c, key).timestamp < TTL
    THEN getItem(c, key).data ELSE None

\* api.js:23-32 setCachedData
setCachedData(c, key, data, now) == [c EXCEPT ![key] = Entry(data, now)]

\* mutant of Bearer: without a token the header says so
BearerOrAnonymous(token) ==
    IF token = "" THEN "Anonymous" ELSE "Bearer " \o token

\* api.js:56 and alike: `Bearer ${token}`
Bearer(token) == "Bearer " \o token

\* fetch(url, { method, headers, body }): the request r with its headers
Fetch(r, contentType, token) ==
    [issued |-> TRUE, request |-> r,
     headers |-> [content_type |-> contentType,
                  authorization |-> Bearer(token)]]

\* no fetch
NoFetch ==
    [issued |-> FALSE, request |-> Request(None, 0, 0, None, None, NoField),
     headers |-> [content_type |-> None, authorization |-> None]]

\* the call of an operation of the API client: its arguments, the request
\* it issued, and how it ended so far
Call(op, args, token, key, fetched, result, value) ==
    [op |-> op, args |-> args, token |-> token, key |-> key,
     fetched |-> fetched, result |-> result, value |-> value]

NoArgs == [query |-> None, page |-> NoNumber, pageSize |-> NoNumber,
           url |-> None, paper |-> None]

NoKey == CacheKey(None, 0, 0)

NoCall == Call(None, NoArgs, "", NoKey, NoFetch, "none", None)

\* api.js:36-59 searchPapers up to its await
searchPapers(args, token, c, now) ==
    IF QueryMissing(args.query)
    THEN Call("searchPapers", args, token, NoKey, NoFetch, "threw",
              "Query is required")
    ELSE LET page     == Default(args.page, 1)
             pageSize == Default(args.pageSize, 5)
             cacheKey == CacheKey(args.query, page, pageSize)
             cached   == getCachedData(c, cacheKey, now)
         IN IF cached # None
            THEN Call("searchPapers", args, token, cacheKey, NoFetch,
                      "returned", cached)
            ELSE Call("searchPapers", args, token, cacheKey,
                      Fetch(Request("searchPapers", 0, 0, "/api/search",
                                    "POST",
                                    [NoField EXCEPT !.query = args.query,
                                                    !.page = page,
                                                    !.page_size = pageSize]),
                            "application/json", token),
                      "pending", None)

Operations == {"searchPapers", "fetchPaper", "askQuestion", "comparePapers",
               "savePaper", "getUserPapers"}

\* the arguments a call is made with
ArgsOf(op) ==
    IF op = "searchPapers"
    THEN {[NoArgs EXCEPT !.query = a.query, !.page = a.page,
                         !.pageSize = a.pageSize] : a \in SearchArgs}
    ELSE IF op = "getUserPapers" THEN {NoArgs}
    ELSE IF op = "savePaper" THEN {[NoArgs EXCEPT !.paper = "A"]}
    ELSE {[NoArgs EXCEPT !.url = "u1"]}

\* api.js:73-165: the request each of the other operations issues
RequestOf(op, args) ==
    CASE op = "fetchPaper"    -> fetchPaper(op, 0, 0, args.url, TRUE)
      [] op = "askQuestion"   -> askQuestion(op, 0, 0, args.url, "q", TRUE)
      [] op = "comparePapers" -> comparePapers(op, 0, <<args.url, args.url>>,
                                               <<args.url, args.url>>)
      [] op = "savePaper"     -> savePaper(op, 0, args.paper)
      [] op = "getUserPapers" -> getUserPapers(op, 0)

\* api.js:154-158: getUserPapers sends no Content-Type
ContentType(op) == IF op = "getUserPapers" THEN None ELSE "application/json"

\* an operation of the API client up to its await
ClientCall(op, args, token, c, now) ==
    IF op = "searchPapers" THEN searchPapers(args, token, c, now)
    ELSE Call(op, args, token, NoKey,
              Fetch(RequestOf(op, args), ContentType(op), token),
              "pending", None)

\* a caller calls an operation
Calls(op, args, token) ==
    /\ call.result # "pending"
    /\ call' = ClientCall(op, args, token, cache, clock)
    /\ UNCHANGED <<appVars, uiVars, idVars, calls, retrieval, cache, clock>>

\* the responses of the search service
SearchData == {"papers", "more papers"}

\* api.js:61-70 and alike: the response arrives; searchPapers caches it
Responds(ok, data) ==
    /\ call.result = "pending"
    /\ call' = IF ok THEN [call EXCEPT !.result = "returned", !.value = data]
               ELSE [call EXCEPT !.result = "threw", !.value = "Failed"]
    /\ cache' = IF ok /\ call.op = "searchPapers"
                THEN setCachedData(cache, call.key, data, clock)
                ELSE cache
    /\ UNCHANGED <<appVars, uiVars, idVars, calls, retrieval, clock>>

\* time passes
Tick(now) ==
    /\ now > clock
    /\ clock' = now
    /\ UNCHANGED <<appVars, uiVars, idVars, calls, retrieval, cache, call>>

\* the entry of a key is overwritten with what cannot be read
Spoil(key) ==
    /\ cache[key].kind = "entry"
    /\ cache' = [cache EXCEPT ![key] = Unreadable]
    /\ UNCHANGED <<appVars, uiVars, idVars, calls, retrieval, clock, call>>

----------------------------------------------------------------------------
(* The search of the Dashboard (App.jsx:125-297) through searchPapers.     *)

\* searches started in one behaviour
MaxSearches == 3

\* App.jsx:70
PAGE_SIZE == 5

\* the token the Dashboard has from the AuthContext (App.jsx:122)
DashboardToken == "t1"

\* what is typed into the search bar
Typed == {"", " ", "AI"}

\* App.jsx:71-78 createDefaultFilters; of the filters the model keeps the
\* 'Has PDF' toggle
createDefaultFilters == [openAccess |-> FALSE]

\* App.jsx:172-203 buildFilterPayload: the keys of the payload
buildFilterPayload(state) ==
    IF state.openAccess THEN {"open_access"} ELSE {}

\* the bodies of search requests
SearchBodies ==
    {[NoField EXCEPT !.query = "AI", !.page = p, !.page_size = PAGE_SIZE,
                     !.filters = f] :
        p \in 1..MaxPage, f \in {{}, {"open_access"}}}

\* POST /api/search: the response is the result page for the query, the
\* page and the filters of the request body
SearchResponse(body) ==
    "results for " \o body.query \o ", page " \o ToString(body.page)
    \o (IF body.filters = {} THEN "" ELSE ", open access")

\* the request body a response was made for
AnsweredBody(data) == CHOOSE b \in SearchBodies : SearchResponse(b) = data

\* response.meta: whether there is a page before and after
Meta(data) ==
    [has_prev |-> AnsweredBody(data).page > 1,
     has_next |-> AnsweredBody(data).page < MaxPage]

NoMeta == [has_prev |-> FALSE, has_next |-> FALSE]

\* App.jsx:125-128, 142-144: the search state of the Dashboard when it
\* mounts; papers None is the empty list
NewDashboard ==
    [query |-> "", papers |-> None, loading |-> FALSE, error |-> "",
     page |-> 1, meta |-> NoMeta, filtersState |-> createDefaultFilters]

\* the arguments fetchPapers gives to searchPapers (App.jsx:210-215)
FetchArgs(searchQuery, targetPage, stateFilters) ==
    [query |-> searchQuery, page |-> targetPage, pageSize |-> PAGE_SIZE,
     filters |-> buildFilterPayload(stateFilters)]

\* the fetchPapers call made last: its number, its arguments, how it ended,
\* what it showed, and for a response taken from the cache the filters of
\* the call that had stored it
Search(seq, args, st, data, from, filters) ==
    [seq |-> seq, args |-> args, st |-> st, data |-> data, from |-> from,
     storedFor |-> filters]

NoSearch == Search(0, FetchArgs(None, 0, createDefaultFilters), "none", None,
                   None, {})

\* App.jsx:216-218: the response is shown
Shown(d, data, targetPage) ==
    [d EXCEPT !.papers = data, !.meta = Meta(data), !.page = targetPage]

FailedToSearch == "Failed to search papers. Please try again."

\* App.jsx:205-231 fetchPapers called in the Dashboard state d, up to its
\* await; a response from the cache is shown at once
fetchPapers(searchQuery, targetPage, stateFilters, d) ==
    LET args    == FetchArgs(searchQuery, targetPage, stateFilters)
        c       == searchPapers(args, DashboardToken, cache, clock)
        started == [d EXCEPT !.loading = TRUE, !.error = ""]
        seq     == searchCalls + 1
    IN /\ searchCalls' = seq
       /\ CASE c.result = "returned" ->
                 /\ dashboard' = [Shown(started, c.value, targetPage)
                                    EXCEPT !.loading = FALSE]
                 /\ searches' = searches
                 /\ lastSearch' = Search(seq, args, "ok", c.value, "cache",
                                         storedFor[c.key])
            [] c.result = "threw" ->
                 /\ dashboard' = [started EXCEPT !.error = FailedToSearch,
                                                 !.loading = FALSE]
                 /\ searches' = searches
                 /\ lastSearch' = Search(seq, args, "fail", None, None, {})
            [] OTHER ->
                 /\ dashboard' = started
                 /\ searches' = searches \cup {[seq |-> seq, call |-> c]}
                 /\ lastSearch' = Search(seq, args, "pending", None, None, {})
       /\ UNCHANGED <<cache, storedFor>>

\* what a search handler leaves as it is
SearchFrame == UNCHANGED <<appVars, idVars, calls, retrieval, clock, call,
                           pagesDashboard, researchQuery, authVars>>

\* SearchBar.jsx:12-18: the query is typed, unless a search is loading
setQuery(v) ==
    /\ ~dashboard.loading /\ v # dashboard.query
    /\ dashboard' = [dashboard EXCEPT !.query = v]
    /\ UNCHANGED <<searches, searchCalls, lastSearch, storedFor, cache>>
    /\ SearchFrame

\* App.jsx:233-240 handleSearch, called by the SearchBar with its value
\* (SearchBar.jsx:4-7, 20-23: not while loading, not with a blank value)
handleSearch(searchQuery) ==
    /\ ~dashboard.loading /\ Trim(searchQuery) # ""
    /\ LET normalizedQuery == Or(Trim(searchQuery), Trim(dashboard.query))
       IN fetchPapers(normalizedQuery, 1, dashboard.filtersState,
                      [dashboard EXCEPT !.query = normalizedQuery,
                                        !.papers = None])
    /\ SearchFrame

\* App.jsx:242-246 handlePageChange; the buttons are there when results are
\* shown, and disabled without meta.has_prev / has_next (App.jsx:679-727)
handlePageChange(direction) ==
    /\ ~dashboard.loading /\ dashboard.papers # None
    /\ IF direction = "next" THEN dashboard.meta.has_next
       ELSE dashboard.meta.has_prev
    /\ dashboard.query # ""
    /\ fetchPapers(dashboard.query,
                   IF direction = "next" THEN dashboard.page + 1
                   ELSE dashboard.page - 1,
                   dashboard.filtersState, dashboard)
    /\ SearchFrame

\* App.jsx:248-259 handleToggleFilter('openAccess', { autoApply: true })
\* (App.jsx:588)
handleToggleFilter ==
    LET next == [dashboard.filtersState EXCEPT !.openAccess = ~@]
        d    == [dashboard EXCEPT !.filtersState = next]
    IN /\ IF dashboard.query # ""
          THEN fetchPapers(dashboard.query, 1, next, d)
          ELSE /\ dashboard' = d
               /\ UNCHANGED <<searches, searchCalls, lastSearch, storedFor,
                              cache>>
       /\ SearchFrame

\* App.jsx:284-288 handleApplyFilters (the button is disabled without query)
handleApplyFilters ==
    /\ dashboard.query # ""
    /\ fetchPapers(dashboard.query, 1, dashboard.filtersState, dashboard)
    /\ SearchFrame

\* App.jsx:290-297 handleClearFilters (the link is disabled when no filter
\* is active, App.jsx:299-306, 655)
handleClearFilters ==
    /\ dashboard.filtersState.openAccess
    /\ LET d == [dashboard EXCEPT !.filtersState = createDefaultFilters]
       IN IF dashboard.query # ""
          THEN fetchPapers(dashboard.query, 1, createDefaultFilters, d)
          ELSE /\ dashboard' = d
               /\ UNCHANGED <<searches, searchCalls, lastSearch, storedFor,
                              cache>>
    /\ SearchFrame

\* api.js:61-70 and App.jsx:216-230: the response to the request of the
\* call s arrives; searchPapers stores it and fetchPapers shows it, or the
\* request failed and fetchPapers shows the error
searchSettled(s, ok) ==
    /\ s \in searches
    /\ LET data == SearchResponse(s.call.fetched.request.body)
       IN IF ok
          THEN /\ cache' = setCachedData(cache, s.call.key, data, clock)
               /\ storedFor' = [storedFor EXCEPT
                                  ![s.call.key] = s.call.args.filters]
               /\ dashboard' = [Shown(dashboard, data, s.call.args.page)
                                  EXCEPT !.loading = FALSE]
               /\ lastSearch' = IF lastSearch.seq = s.seq
                                THEN [lastSearch EXCEPT !.st = "ok",
                                                        !.data = data,
                                                        !.from = "network"]
                                ELSE lastSearch
          ELSE /\ UNCHANGED <<cache, storedFor>>
               /\ dashboard' = [dashboard EXCEPT !.error = FailedToSearch,
                                                 !.loading = FALSE]
               /\ lastSearch' = IF lastSearch.seq = s.seq
                                THEN [lastSearch EXCEPT !.st = "fail"]
                                ELSE lastSearch
    /\ searches' = searches \ {s}
    /\ UNCHANGED searchCalls
    /\ SearchFrame

----------------------------------------------------------------------------
(* The searches of pages/Dashboard.jsx and of ResearchQuery, which call    *)
(* searchPapers(searchQuery, token) with the query string itself.          *)

\* a string given as the first argument of searchPapers
StringArg(s) == [string |-> s]

\* api.js:36 the destructuring { query, page = 1, pageSize = 5 } of the
\* first argument: a property the argument has not is undefined
Property(arg, name, undefined) ==
    IF name \in DOMAIN arg THEN arg[name] ELSE undefined

Destructured(arg) ==
    [query    |-> Property(arg, "query", None),
     page     |-> Property(arg, "page", NoNumber),
     pageSize |-> Property(arg, "pageSize", NoNumber)]

\* pages/Dashboard.jsx:16-19
NewPagesDashboard ==
    [query |-> "", papers |-> None, loading |-> FALSE, error |-> "",
     lastCall |-> NoCall]

\* README.md:167-170
NewResearchQuery ==
    [query |-> "", results |-> None, loading |-> FALSE, lastCall |-> NoCall]

\* api.js:36-71 searchPapers called with the string searchQuery, to its
\* end: it throws, returns what is cached, or its request is answered (ok)
\* or fails
searchPapersWithString(searchQuery, ok) ==
    LET c == searchPapers(Destructured(StringArg(searchQuery)),
                          DashboardToken, cache, clock)
    IN IF c.result # "pending" THEN c
       ELSE IF ok
       THEN [c EXCEPT !.result = "returned",
                      !.value = SearchResponse(c.fetched.request.body)]
       ELSE [c EXCEPT !.result = "threw", !.value = "Failed"]

\* api.js:68: a response that was fetched is stored
StoredBy(c) ==
    IF c.fetched.issued /\ c.result = "returned"
    THEN setCachedData(cache, c.key, c.value, clock)
    ELSE cache

\* what the handlers of the two components leave as it is
PagesFrame == UNCHANGED <<appVars, idVars, calls, retrieval, clock, call,
                          dashboard, searches, searchCalls, lastSearch,
                          storedFor, authVars>>

\* pages/Dashboard.jsx:244-249 SearchBar onChange={setQuery}
pagesSetQuery(v) ==
    /\ ~pagesDashboard.loading /\ v # pagesDashboard.query
    /\ pagesDashboard' = [pagesDashboard EXCEPT !.query = v]
    /\ UNCHANGED <<cache, researchQuery>>
    /\ PagesFrame

\* pages/Dashboard.jsx:53-69 handleSearch to its end; while it awaits the
\* search bar is disabled (SearchBar.jsx:17, 22)
pagesHandleSearch(searchQuery, ok) ==
    /\ ~pagesDashboard.loading /\ Trim(searchQuery) # ""
    /\ LET c == searchPapersWithString(searchQuery, ok)
       IN /\ pagesDashboard' =
               [pagesDashboard EXCEPT
                  !.papers = IF c.result = "returned" THEN c.value ELSE None,
                  !.error = IF c.result = "returned" THEN ""
                            ELSE FailedToSearch,
                  !.loading = FALSE,
                  !.lastCall = c]
          /\ cache' = StoredBy(c)
    /\ UNCHANGED researchQuery
    /\ PagesFrame

\* README.md:188-192 the textarea of ResearchQuery
researchSetQuery(v) ==
    /\ v # researchQuery.query
    /\ researchQuery' = [researchQuery EXCEPT !.query = v]
    /\ UNCHANGED <<cache, pagesDashboard>>
    /\ PagesFrame

\* README.md:172-183 ResearchQuery.handleSearch to its end
researchHandleSearch(ok) ==
    /\ Trim(researchQuery.query) # ""
    /\ LET c == searchPapersWithString(researchQuery.query, ok)
       IN /\ researchQuery' =
               [researchQuery EXCEPT
                  !.results = IF c.result = "returned" THEN c.value ELSE @,
                  !.loading = FALSE,
                  !.lastCall = c]
          /\ cache' = StoredBy(c)
    /\ UNCHANGED pagesDashboard
    /\ PagesFrame

----------------------------------------------------------------------------
(* App (App.jsx:12-57): the auth state, and the Dashboard it renders.      *)

\* auth state changes reported in one behaviour
MaxAuthEvents == 3

\* the users that sign in
Users == {"u1", "u2"}

\* currentUser.getIdToken(): the ID token of a user
IdToken(u) == "token of " \o u

\* App.jsx:13-15
NewApp == [user |-> None, token |-> None, loading |-> TRUE]

\* effectToken while no Dashboard is mounted
Unmounted == "unmounted"

\* a request the Dashboard issued, with the token it had
DashboardFetch(op, args, t) ==
    [op |-> op, token |-> t,
     fetched |-> Fetch(RequestOf(op, args), ContentType(op), t)]

NoDashboardFetch == [op |-> None, token |-> None, fetched |-> NoFetch]

\* App.jsx:33-52: the Dashboard is rendered when App is not loading and
\* has a user (a signed-in user is sent from /login and /register to
\* /dashboard, App.jsx:47-48)
DashboardRendered(a) == ~a.loading /\ a.user # None

\* App renders with the state a; App.jsx:153-170: the effect of the
\* Dashboard runs when it mounts and when its token has changed, and calls
\* getUserPapers(token)
Render(a) ==
    IF DashboardRendered(a)
    THEN /\ effectToken' = a.token
         /\ lastFetch' = IF effectToken # a.token
                         THEN DashboardFetch("getUserPapers", NoArgs, a.token)
                         ELSE lastFetch
    ELSE /\ effectToken' = Unmounted
         /\ UNCHANGED lastFetch

\* what the callbacks of App leave as it is
AuthFrame == UNCHANGED <<appVars, idVars, calls, retrieval, apiVars,
                         searchVars>>

\* App.jsx:18-28 the callback of onAuthStateChanged up to its await, or to
\* its end when no user is signed in; it is called with the state at
\* subscription and then when the signed-in user changes
onAuthStateChanged(currentUser) ==
    /\ authEvents = 0 \/ currentUser # auth.user
    /\ authEvents' = authEvents + 1
    /\ IF currentUser # None
       THEN /\ auth' = [auth EXCEPT !.user = currentUser]
            /\ idTokens' = idTokens \cup
                   {[user |-> currentUser, event |-> authEvents + 1]}
       ELSE /\ auth' = [user |-> None, token |-> None, loading |-> FALSE]
            /\ UNCHANGED idTokens
    /\ Render(auth')
    /\ AuthFrame

\* App.jsx:21-22, 27: getIdToken resolved
getIdTokenResolved(p) ==
    /\ p \in idTokens
    /\ auth' = [auth EXCEPT !.token = IdToken(p.user), !.loading = FALSE]
    /\ idTokens' = idTokens \ {p}
    /\ Render(auth')
    /\ UNCHANGED authEvents
    /\ AuthFrame

\* App.jsx:21: getIdToken rejected, the callback ends there
getIdTokenRejected(p) ==
    /\ p \in idTokens
    /\ idTokens' = idTokens \ {p}
    /\ UNCHANGED <<auth, authEvents, effectToken, lastFetch>>
    /\ AuthFrame

\* the operations the mounted Dashboard calls for its user, with the token
\* of the AuthContext (App.jsx:122, 215, 344, 376, 391)
DashboardOperations == {"fetchPaper", "comparePapers", "savePaper"}

dashboardCalls(op) ==
    /\ effectToken # Unmounted
    /\ \E args \in ArgsOf(op) :
          /\ lastFetch # DashboardFetch(op, args, auth.token)
          /\ lastFetch' = DashboardFetch(op, args, auth.token)
    /\ UNCHANGED <<auth, idTokens, authEvents, effectToken>>
    /\ AuthFrame

----------------------------------------------------------------------------
(* Specifications.                                                         *)

Init ==
    /\ selectedPaper = NoPaper
    /\ showChat = FALSE
    /\ selectedForCompare = <<>>
    /\ compareLoading = FALSE
    /\ compareResult = NoResult
    /\ userPapers = {}
    /\ messages = <<>>
    /\ input = ""
    /\ loading = FALSE
    /\ paperReady = FALSE
    /\ processingPaper = TRUE
    /\ sourceType = None
    /\ chatInst = 0
    /\ fetchCalls = 0
    /\ compareRuns = 0
    /\ compare = Idle
    /\ lastCompare = None
    /\ net = {}
    /\ store = [id \in PaperIds |-> Unbuilt]
    /\ saved = {}
    /\ hashSeed = 0
    /\ calls = 0
    /\ cache = [k \in CacheKeys |-> NoEntry]
    /\ clock = 0
    /\ call = NoCall
    /\ dashboard = NewDashboard
    /\ searches = {}
    /\ searchCalls = 0
    /\ lastSearch = NoSearch
    /\ storedFor = [k \in CacheKeys |-> {}]
    /\ pagesDashboard = NewPagesDashboard
    /\ researchQuery = NewResearchQuery
    /\ auth = NewApp
    /\ idTokens = {}
    /\ authEvents = 0
    /\ effectToken = Unmounted
    /\ lastFetch = NoDashboardFetch
    /\ retrieval = [sims |-> <<>>, top_k |-> 1, chunks |-> <<>>]
    /\ preparedAs = [u \in URLs |-> NoId]
    /\ askedAs = [u \in URLs |-> NoId]

\* preparation on the server, and the transport
NextBuild ==
    \/ \E r \in net : Prepare(r)
    \/ \E id \in PaperIds, o \in Outcomes : BuildFinish(id, o)
    \/ \E r \in net : RequestFails(r)

\* preparation under memory pressure
NextPrepare ==
    \/ NextBuild
    \/ \E id \in PaperIds : Evict(id)

\* the ChatModal from its mount to its unmount, without its questions
NextMount ==
    \/ onClose
    \/ \E r \in net : initializePaperResolved(r)
    \/ \E r \in net : initializePaperRejected(r)

\* the questions of a chat
NextAsk ==
    \/ \E v \in Inputs : setInput(v)
    \/ UserTurns(messages) < MaxAsks /\ handleSendMessage
    \/ \E t \in Templates : UserTurns(messages) < MaxAsks /\ quickAsk(t)
    \/ \E r \in net : askResolved(r)
    \/ \E r \in net : askRejected(r)
    \/ \E r \in net, g \in BOOLEAN : Answer(r, g)

\* the chat with one paper
NextChat ==
    \/ \E paper \in ChatPapers : chatInst < MaxChatOpens /\ handleAskQuestion(paper)
    \/ NextMount
    \/ NextAsk
    \/ NextPrepare

SpecChat == Init /\ [][NextChat]_vars

\* questions that are not left alone: the server settles every ask-question
\* request, and the continuation of a settled askQuestion call runs
FairAsk ==
    /\ WF_vars(\E r \in net, g \in BOOLEAN : Answer(r, g))
    /\ WF_vars(\E r \in net : askResolved(r))
    /\ WF_vars(\E r \in net : askRejected(r))

\* the turns of the chat with a paper that has a URL
NextTurns ==
    \/ chatInst < MaxChatOpens /\ handleAskQuestion(PA)
    \/ NextMount
    \/ NextAsk
    \/ NextBuild

SpecTurns == Init /\ [][NextTurns]_vars

SpecTurnsLive == SpecTurns /\ FairAsk

\* papers opened, closed and opened again
NextReopen ==
    \/ \E paper \in Catalog : chatInst < MaxMounts /\ handleAskQuestion(paper)
    \/ NextMount
    \/ NextPrepare

SpecReopen == Init /\ [][NextReopen]_vars

\* preparations that are not left alone: the server takes every request and
\* ends every build, and the continuation of a settled fetchPaper call runs
FairPrepare ==
    /\ WF_vars(\E r \in net : Prepare(r))
    /\ \A id \in PaperIds : WF_vars(\E o \in Outcomes : BuildFinish(id, o))
    /\ WF_vars(\E r \in net : initializePaperResolved(r))
    /\ WF_vars(\E r \in net : initializePaperRejected(r))

SpecReopenLive == SpecReopen /\ FairPrepare

\* the selection and the comparison of papers: papers are selected, then
\* compared in the modal that covers their cards (App.jsx:780-810)
NextCompare ==
    \/ \E paper \in Catalog : compareRuns = 0 /\ toggleSelectForCompare(paper)
    \/ \E q \in Queries : compareRuns < MaxCompareRuns /\ runCompare(q)
    \/ fetchAllResolved
    \/ \E r \in net : fetchRejected(r)
    \/ \E r \in net : comparePapersResolved(r)
    \/ \E r \in net : comparePapersRejected(r)
    \/ \E r \in net, g \in BOOLEAN : Compare(r, g)
    \/ NextBuild

SpecCompare == Init /\ [][NextCompare]_vars

\* paper ids over the restarts of the server
NextIds ==
    \/ \E url \in URLs : PrepareId(url)
    \/ \E url \in URLs : LookupId(url)
    \/ \E seed \in 0..MaxSeed : Restart(seed)

SpecIds == Init /\ [][NextIds]_vars

\* the back end under concurrent calls
NextServer ==
    \/ \E url \in URLs : calls < MaxCalls /\ CallPrepare(url)
    \/ \E url \in URLs : calls < MaxCalls /\ CallAsk(url)
    \/ \E r \in net, g \in BOOLEAN : Answer(r, g)
    \/ NextPrepare

SpecServer == Init /\ [][NextServer]_vars

\* retrievals over every index and top_k
NextQuery ==
    \E sims \in Indexes, top_k \in 1..MaxChunks : Retrieve(sims, top_k)

SpecQuery == Init /\ [][NextQuery]_vars

\* the search of the Dashboard
NextSearch ==
    \/ \E v \in Typed : setQuery(v)
    \/ searchCalls < MaxSearches /\ handleSearch(dashboard.query)
    \/ \E direction \in {"next", "prev"} :
          searchCalls < MaxSearches /\ handlePageChange(direction)
    \/ searchCalls < MaxSearches /\ handleToggleFilter
    \/ searchCalls < MaxSearches /\ handleApplyFilters
    \/ searchCalls < MaxSearches /\ handleClearFilters
    \/ \E s \in searches, ok \in BOOLEAN : searchSettled(s, ok)

SpecSearch == Init /\ [][NextSearch]_vars

\* the searches of the three components over one localStorage
NextPages ==
    \/ \E v \in Typed : pagesSetQuery(v)
    \/ \E ok \in BOOLEAN : pagesHandleSearch(pagesDashboard.query, ok)
    \/ \E v \in Typed : researchSetQuery(v)
    \/ \E ok \in BOOLEAN : researchHandleSearch(ok)
    \/ NextSearch

SpecPages == Init /\ [][NextPages]_vars

\* sign-in and sign-out under the rendered application
NextAuth ==
    \/ \E currentUser \in Users \cup {None} :
          authEvents < MaxAuthEvents /\ onAuthStateChanged(currentUser)
    \/ \E p \in idTokens : getIdTokenResolved(p)
    \/ \E p \in idTokens : getIdTokenRejected(p)
    \/ \E op \in DashboardOperations : dashboardCalls(op)

SpecAuth == Init /\ [][NextAuth]_vars

\* the API client called on its own
NextApi ==
    \/ \E op \in Operations : \E args \in ArgsOf(op), token \in Tokens :
          Calls(op, args, token)
    \/ \E ok \in BOOLEAN, data \in SearchData : Responds(ok, data)
    \/ \E now \in Times : Tick(now)
    \/ \E key \in CacheKeys : Spoil(key)

SpecApi == Init /\ [][NextApi]_vars

----------------------------------------------------------------------------
(* Claims about the chat.                                                  *)

AskRequests == {r \in net : r.path = "/api/ask-question"}

\* the replies in the chat: every message after the first that is no user's
Replies == {i \in DOMAIN messages : i > 1 /\ messages[i].role # "user"}

\* C3: a paper with no usable source (no URL, no abstract) does not abort the
\* conversation: once its chat has finished initialising, questions are
\* accepted (paperReady).  The code never sets paperReady for it.
C3_UnavailableStillAsked ==
    (/\ showChat /\ ~processingPaper
     /\ PdfUrl(selectedPaper) = None /\ ~selectedPaper.abstract)
    => paperReady

\* C4: no question is put to a paper before its preparation has completed:
\* no ask-question request of a chat exists while the fetchPaper call of
\* that chat is pending, and the server answers a question only for a paper
\* that is prepared (otherwise NotReady).
C4_NoAskBeforePrepared ==
    /\ \A a \in AskRequests :
         ~\E f \in net : f.owner = "initializePaper" /\ f.inst = a.inst
    /\ \A a \in AskRequests :
         /\ a.st = "ok" => Prepared(store[PaperId(a.body.pdf_url)])
         /\ (a.st = "fail" /\ ~Prepared(store[PaperId(a.body.pdf_url)]))
              => a.resp.error \in {"NotReady", "http"}
    /\ (showChat /\ (loading \/ paperReady)) => ~processingPaper

\* C4 witness: a question asked after a failed preparation is refused with
\* NotReady, in a chat whose fetchPaper call is over.
C4_Witness ==
    \E a \in AskRequests :
        /\ Mounted(a) /\ a.resp.error = "NotReady"
        /\ paperReady /\ loading

\* the mounted chat takes the failure of its question: the settled request
\* leaves the net and the chat stays open
FailedAskTaken ==
    \E r \in AskRequests :
        /\ Mounted(r) /\ r.st = "fail"
        /\ r \notin net' /\ showChat' /\ chatInst' = chatInst

\* C5: a failed answer affects that turn only: the chat appends exactly one
\* failure message, loading is reset, paperReady stays true, and the failure
\* leaves the engine state of every paper as it was.
C5_FailedTurnOnly ==
    [][/\ FailedAskTaken =>
            /\ Len(messages') = Len(messages) + 1
            /\ SubSeq(messages', 1, Len(messages)) = messages
            /\ messages'[Len(messages')].role = "system"
            /\ ~loading'
            /\ paperReady /\ paperReady'
       /\ \A r \in AskRequests :
            (r.st = "sent" /\ \E rr \in net' :
                 rr.owner = r.owner /\ rr.inst = r.inst /\ rr.slot = r.slot
                 /\ rr.st = "fail")
            => \A id \in PaperIds : store'[id].state = store[id].state
      ]_vars

\* C5 witness: after a failed turn the next question of the same chat got
\* its answer.
C5_Witness ==
    /\ showChat /\ paperReady /\ ~loading
    /\ \E i, j \in Replies :
         /\ i < j
         /\ messages[i].role = "system"
         /\ messages[j].role = "assistant"

\* C6: for a paper prepared as metadata_only every answer carries a
\* disclaimer and no citation, on the net and in the chat.
C6_MetadataOnlyDisclaimer ==
    /\ \A a \in AskRequests :
         (a.st = "ok" /\ a.resp.source_type = "metadata_only")
         => a.resp.disclaimer # None /\ a.resp.citation = None
    /\ (showChat /\ sourceType = "metadata_only")
       => \A i \in Replies :
            messages[i].role = "assistant"
            => /\ messages[i].disclaimer # None
               /\ messages[i].citation = None
               /\ messages[i].sourceType = "metadata_only"

\* C6 witness: a chat on a metadata_only paper holds an answer.
C6_Witness ==
    /\ showChat /\ sourceType = "metadata_only"
    /\ \E i \in Replies : messages[i].role = "assistant"

----------------------------------------------------------------------------
(* Claims about the comparison.                                            *)

CompareRequests == {r \in net : r.path = "/api/compare-papers"}

\* the number of selected papers that have a URL
WithUrl == Cardinality({i \in DOMAIN selectedForCompare :
                           PdfUrl(selectedForCompare[i]) # None})

\* C1: a runCompare call made while fewer than two of the selected papers
\* have a URL sends no request and leaves compareLoading and compareResult
\* as they are
C1_TooFewNoRun ==
    [][(WithUrl < 2 /\ \E q \in Queries : runCompare(q))
          => UNCHANGED <<net, compareLoading, compareResult>>]_vars

\* a call was rejected although two papers were selected, one without URL
C1_Witness ==
    /\ lastCompare = "rejected"
    /\ Len(selectedForCompare) >= 2
    /\ WithUrl = 1
    /\ net = {} /\ ~compareLoading /\ compareResult = NoResult

\* C2: a comparison in which the preparation of one paper failed is not
\* aborted, it goes on to the synthesis: such a run never ends with the
\* failure text in place of a result
C2_PrepareFailureNotFatal ==
    lastCompare = "prepare_failed" => compareResult # FailedResult

\* C10: every compare request names at least two papers, and no paper twice
C10_TwoDistinctPapers ==
    \A r \in CompareRequests :
        /\ Len(r.body.urls) >= 2
        /\ \A i, j \in DOMAIN r.body.urls :
              r.body.urls[i] = r.body.urls[j] => i = j

----------------------------------------------------------------------------
(* Claims about the vector store.                                          *)

FetchRequests == {r \in net : r.path = "/api/fetch-paper"}

\* C7: concurrent prepare calls for one paper that is not built make one
\* build: while a build of a paper is in flight none is started for it, and
\* when it ends with an index every caller that joined it and still awaits it
\* gets the handle of that one index
C7_OneBuildShared ==
    [][\A id \in PaperIds :
          store[id].state = "preparing"
          => /\ store'[id].builds = store[id].builds
             /\ Prepared(store'[id])
                => \A w \in Waiters(id) :
                      Awaited(w)
                      => Respond(w, "ok", PrepareResult(store'[id])) \in net']_vars

\* C7 witness: the two callers of one comparison that asked for the same
\* unbuilt paper hold the handle of its one build, while the build of another
\* paper is in flight
C7_Witness ==
    /\ \E r1, r2 \in FetchRequests :
          /\ r1.owner = "runCompare" /\ r2.owner = "runCompare"
          /\ r1.slot # r2.slot /\ r1.body.pdf_url = r2.body.pdf_url
          /\ r1.st = "ok" /\ r2.st = "ok"
          /\ r1.resp.handle = 1 /\ r2.resp.handle = 1
          /\ store[PaperId(r1.body.pdf_url)].builds = 1
          /\ store[PaperId(r1.body.pdf_url)].hits = 0
    /\ \E id \in PaperIds : store[id].state = "preparing"

----------------------------------------------------------------------------
(* Claims about what the chat shows.                                       *)

\* part_002:229-234: of a message the chat renders the content and, if there
\* is one, the disclaimer; sourceType is rendered nowhere
Rendered(m) == {m.content} \cup (IF m.disclaimer # None THEN {m.disclaimer}
                                 ELSE {})

\* the message tells of a degraded or failed state: a system message
\* (part_002:31-34, 72-75, 118-121, 152) or a rendered disclaimer
Explains(m) == m.role = "system" \/ m.disclaimer \in Rendered(m)

\* C12: every degraded or failed state is explained in the chat: once the
\* preparation of the chat's paper has resolved to a degraded source
\* (metadata_only or unavailable), the chat shows a message that tells so
C12_DegradedExplained ==
    (showChat /\ ~processingPaper
             /\ sourceType \in {"metadata_only", "unavailable"})
    => \E i \in DOMAIN messages : Explains(messages[i])

----------------------------------------------------------------------------
(* Claims about paper ids.                                                 *)

\* C13: the same URL always resolves to the same paper id, across requests
\* and across restarts of the server: the id under which a URL was prepared
\* is the id with which it is later asked about or compared
C13_SameUrlSameId ==
    \A url \in URLs :
        (preparedAs[url] # NoId /\ askedAs[url] # NoId)
        => askedAs[url] = preparedAs[url]

----------------------------------------------------------------------------
(* Claims about the answer engine.                                         *)

\* C14: no question is answered against a partially built index: every
\* answer given for a paper was given from its completely built index, and
\* all answers for one paper report the source of that index, also when
\* questions and the build are requested concurrently; a question that meets
\* a build in flight is refused
C14_AnsweredFromBuiltIndex ==
    \A a \in AskRequests :
        LET e == store[PaperId(a.body.pdf_url)] IN
        a.st = "ok"
        => /\ Prepared(e)
           /\ a.resp.source_type # None
           /\ a.resp.source_type = e.source_type

\* C14 witness: of two questions about one paper the one that came before
\* the index was built is refused and the other answered, the paper built once
C14_Witness ==
    \E a, b \in AskRequests :
        /\ a.body.pdf_url = b.body.pdf_url
        /\ a.resp.error = "NotReady" /\ a.inst < b.inst
        /\ b.st = "ok"
        /\ store[PaperId(a.body.pdf_url)].builds = 1

\* C15: query returns the top_k chunks ordered by similarity, highest first,
\* ties broken by the lower chunk index: the chunks returned are distinct,
\* min(top_k, number of chunks) many, each has a higher similarity than the
\* next or the same similarity and a lower index, and no chunk left out has
\* a higher similarity than one returned, or the same with a lower index;
\* this order being total, the sequence is the only one for the question
C15_RankedBySimilarity ==
    LET sims == retrieval.sims
        out  == retrieval.chunks
        n    == Len(sims)
    IN /\ Len(out) = IF retrieval.top_k < n THEN retrieval.top_k ELSE n
       /\ \A p \in DOMAIN out : out[p] \in 1..n
       /\ \A p, q \in DOMAIN out :
             p < q => \/ sims[out[p]] > sims[out[q]]
                      \/ sims[out[p]] = sims[out[q]] /\ out[p] < out[q]
       /\ \A c \in 1..n :
             (\A p \in DOMAIN out : out[p] # c)
             => \A p \in DOMAIN out :
                   \/ sims[out[p]] > sims[c]
                   \/ sims[out[p]] = sims[c] /\ out[p] < c

\* C15 witness: a retrieval of two chunks out of three, the first two of the
\* index being as similar as each other and more than the third
C15_Witness ==
    /\ Len(retrieval.sims) = 3 /\ retrieval.top_k = 2
    /\ retrieval.sims[1] = retrieval.sims[2]
    /\ retrieval.sims[3] < retrieval.sims[1]
    /\ retrieval.chunks = <<1, 2>>

----------------------------------------------------------------------------
(* Claims about termination.                                               *)

\* C16 as stated: a paper that leaves preparing leaves it for ready or
\* ready(degraded)
C16_PreparingEndsReady ==
    [][\A id \in PaperIds :
          (store[id].state = "preparing" /\ store'[id].state # "preparing")
          => Prepared(store'[id])]_vars

\* C16: preparation always terminates: a paper that is preparing eventually
\* is not (it is ready, ready(degraded), or back to unprepared after an
\* EmbeddingFailure), and a chat that shows the processing indicator
\* eventually shows it no more, or is closed
C16_PreparationTerminates ==
    /\ \A id \in PaperIds :
          (store[id].state = "preparing") ~> (store[id].state # "preparing")
    /\ (showChat /\ processingPaper) ~> (~showChat \/ ~processingPaper)

\* C16 witness: the chat of a paper whose build ended with an
\* EmbeddingFailure has taken the failure and shows no processing indicator
C16_Witness ==
    /\ showChat /\ ~processingPaper /\ paperReady /\ sourceType = None
    /\ PdfUrl(selectedPaper) # None
    /\ store[PaperId(PdfUrl(selectedPaper))].state = "unprepared"
    /\ store[PaperId(PdfUrl(selectedPaper))].builds = 1

----------------------------------------------------------------------------
(* Claims about the API client.                                            *)

\* a step in which an operation of the API client is called
CallStep == call.result # "pending" /\ call' # call

\* C17: the token is only passed through: called with any other token an
\* operation does the same (the same request to the same URL with the same
\* method and body, or the same return or error without a request), and an
\* issued request carries exactly the supplied token in its Authorization
\* header
C17_TokenPassedThrough ==
    [][CallStep =>
         \A other \in {ClientCall(call'.op, call'.args, t, cache, clock) :
                          t \in Tokens} :
            /\ other.fetched.issued
               => other.fetched.headers.authorization
                     = "Bearer " \o other.token
            /\ [other EXCEPT
                  !.token = call'.token,
                  !.fetched.headers.authorization =
                      call'.fetched.headers.authorization] = call'
      ]_vars

\* C17 witness: a request issued with the empty token
C17_Witness ==
    /\ call.fetched.issued /\ call.token = ""
    /\ call.fetched.headers.authorization = "Bearer "

\* README.md:64-71: the endpoints of the back end
ReadmeEndpoints ==
    {<<"GET", "/api/health">>, <<"POST", "/api/search">>,
     <<"POST", "/api/fetch-paper">>, <<"POST", "/api/ask-question">>,
     <<"POST", "/api/compare-papers">>, <<"POST", "/api/user/save-paper">>,
     <<"GET", "/api/user/papers">>, <<"GET", "/api/user/search-history">>}

\* C18: every request the API client issues goes to an endpoint of the
\* README with the method listed there
C18_DocumentedEndpoints ==
    call.fetched.issued
    => <<call.fetched.request.method, call.fetched.request.path>>
          \in ReadmeEndpoints

\* C18 witness: getUserPapers has issued GET /api/user/papers
C18_Witness ==
    /\ call.op = "getUserPapers" /\ call.fetched.issued
    /\ call.fetched.request.method = "GET"
    /\ call.fetched.request.path = "/api/user/papers"

\* a step in which searchPapers is called with a query
SearchStep == CallStep /\ call'.op = "searchPapers"
                       /\ call'.args.query \in {"AI", " ai "}

\* the key of the search just called: the lower-cased trimmed query, the
\* page and the page size, 1 and 5 if not given
SearchedKey ==
    <<"search", "ai",
      IF call'.args.page = NoNumber THEN 1 ELSE call'.args.page,
      IF call'.args.pageSize = NoNumber THEN 5 ELSE call'.args.pageSize>>

\* C19: searchPapers returns the stored response and issues no request
\* exactly when the entry under the key of the search is less than
\* 3,600,000 ms old; with no entry, an older entry or an unreadable one it
\* fetches from /api/search
C19_CacheValidOneHour ==
    [][SearchStep =>
         IF /\ cache[SearchedKey].kind = "entry"
            /\ clock - cache[SearchedKey].timestamp < 3600000
         THEN /\ call'.result = "returned"
              /\ call'.value = cache[SearchedKey].data
              /\ ~call'.fetched.issued
         ELSE /\ call'.result = "pending"
              /\ call'.fetched.issued
              /\ call'.fetched.request.path = "/api/search"
      ]_vars

\* C19 witness: a search answered from an entry that is one millisecond
\* short of an hour old
C19_Witness ==
    /\ call.op = "searchPapers" /\ call.result = "returned"
    /\ ~call.fetched.issued
    /\ cache[call.key].kind = "entry"
    /\ clock - cache[call.key].timestamp = 3600000 - 1

\* C20: searchPapers called with a missing, empty or whitespace-only query
\* throws 'Query is required', issues no request and leaves the cache as it is
C20_QueryRequired ==
    [][(CallStep /\ call'.op = "searchPapers"
                 /\ call'.args.query \in {None, "", " "})
         => /\ call'.result = "threw"
            /\ call'.value = "Query is required"
            /\ ~call'.fetched.issued
            /\ cache' = cache
      ]_vars

\* C20 witness: a whitespace-only query was refused while the cache holds a
\* valid entry
C20_Witness ==
    /\ call.op = "searchPapers" /\ call.args.query = " "
    /\ call.result = "threw" /\ call.value = "Query is required"
    /\ \E k \in CacheKeys :
          cache[k].kind = "entry" /\ clock - cache[k].timestamp < 3600000

----------------------------------------------------------------------------
(* Claims about a chat whose preparation failed, and about its turns.      *)

\* the mounted chat takes the failure of its fetchPaper call
FailedFetchTaken ==
    \E r \in net :
        /\ r.owner = "initializePaper" /\ Mounted(r) /\ r.st = "fail"
        /\ r \notin net' /\ showChat' /\ chatInst' = chatInst

\* the chat is ready although its fetchPaper call failed: no source type
\* was set
ReadyAfterFailure == showChat /\ paperReady /\ sourceType = None

\* the step issues an ask-question request for the paper of the chat
AskIssued ==
    \E a \in net' \ net :
        /\ a.path = "/api/ask-question" /\ a.inst = chatInst
        /\ a.body.pdf_url = PdfUrl(selectedPaper)

\* C21: when fetchPaper fails for a paper that has a URL the chat shows a
\* failure notice and becomes ready as on success, and a question sent or
\* a quick suggestion clicked after it issues an ask-question request
C21_FailedPrepareStillAsks ==
    [][/\ FailedFetchTaken
          => /\ paperReady' /\ ~processingPaper'
             /\ Len(messages') = 1 /\ messages'[1].role = "system"
       /\ (ReadyAfterFailure /\ ~loading /\ Trim(input) # ""
           /\ handleSendMessage) => AskIssued
       /\ \A t \in Templates :
            (ReadyAfterFailure /\ ~loading /\ quickAsk(t)) => AskIssued
      ]_vars

\* C21 witness: the chat of a paper with a URL shows the failure notice of
\* its preparation and, after it, the question whose request is out
C21_Witness ==
    /\ ReadyAfterFailure /\ loading
    /\ PdfUrl(selectedPaper) # None
    /\ Len(messages) = 2
    /\ messages[1].role = "system" /\ messages[2].role = "user"
    /\ \E a \in AskRequests : Mounted(a) /\ a.st = "sent"

\* the ask-question requests of the chat mounted as number i that are out or
\* wait for their caller
AsksOf(i) == {a \in AskRequests : a.inst = i}

\* C24: at most one ask-question request is in flight per chat, and while a
\* question is loading no step of the chat appends a user message or issues
\* an ask-question request
C24_OneAskInFlight ==
    [][/\ \A i \in 1..chatInst' : Cardinality(AsksOf(i)') <= 1
       /\ (showChat /\ loading /\ showChat' /\ chatInst' = chatInst)
          => /\ UserTurns(messages') = UserTurns(messages)
             /\ AsksOf(chatInst)' \subseteq
                   {a \in net' : \E b \in AsksOf(chatInst) :
                        b.owner = a.owner /\ b.slot = a.slot}
      ]_vars

\* C24 witness: the second question of a chat is in flight, alone, after the
\* first was answered
C24_Witness ==
    /\ showChat /\ loading /\ UserTurns(messages) = 2
    /\ Cardinality(AsksOf(chatInst)) = 1
    /\ \E i \in Replies : messages[i].role = "assistant"

\* the turns of the chat alternate: a user message that is not the last is
\* followed by a reply, and every reply follows a user message
TurnsAlternate ==
    \A i \in DOMAIN messages :
        /\ (messages[i].role = "user" /\ i < Len(messages))
           => messages[i + 1].role \in {"assistant", "system"}
        /\ (messages[i].role # "user" /\ i > 1)
           => messages[i - 1].role = "user"

\* C25: every user message of a chat is eventually followed by one reply, the
\* answer or a failure notice, appended right after it, and by no second one;
\* and a chat that is loading eventually is not (the chat may be closed
\* before, which ends it with its messages)
C25_EveryTurnReplied ==
    /\ \A n \in 1..(2 * MaxAsks + 1) :
          (showChat /\ Len(messages) = n /\ messages[n].role = "user")
          ~> (\/ ~showChat
              \/ /\ Len(messages) > n
                 /\ messages[n + 1].role \in {"assistant", "system"})
    /\ (showChat /\ loading) ~> (~showChat \/ ~loading)
    /\ [](showChat => TurnsAlternate)

\* C25 witness: a chat with two turns over, the first answered and the
\* second failed, that is not loading
C25_Witness ==
    /\ showChat /\ ~loading /\ Len(messages) = 5
    /\ messages[2].role = "user" /\ messages[3].role = "assistant"
    /\ messages[4].role = "user" /\ messages[5].role = "system"

----------------------------------------------------------------------------
(* Claims about the search of the Dashboard.                               *)

\* the request of every search carries the filters the call was given
FiltersForwarded ==
    \A s \in searches :
        s.call.fetched.request.body.filters = s.call.args.filters

\* the response the last search took from the cache was stored by a call
\* with the same filters
CachedForSameFilters ==
    lastSearch.from = "cache" => lastSearch.storedFor = lastSearch.args.filters

\* C22: a search with filters gets results for those filters: searchPapers
\* forwards the filters it is given in the request, and never returns a
\* response that was cached for the same query, page and pageSize under
\* other filters
C22_FiltersHonoured == FiltersForwarded /\ CachedForSameFilters

\* C23: once every search request has settled, the Dashboard shows the
\* papers, the meta and the page of the search that was started last, if
\* that search succeeded
C23_LatestSearchShown ==
    (searches = {} /\ lastSearch.st = "ok")
    => /\ dashboard.papers = lastSearch.data
       /\ dashboard.meta = Meta(lastSearch.data)
       /\ dashboard.page = lastSearch.args.page

\* C28: a non-blank query submitted through handleSearch of
\* pages/Dashboard.jsx or of ResearchQuery leads to a search for it, served
\* from the cache or requested from the back end, whose results are shown;
\* it ends in the error only if the request itself failed
C28_SearchRuns ==
    /\ pagesDashboard.error = FailedToSearch
       => pagesDashboard.lastCall.fetched.issued
    /\ pagesDashboard.lastCall.result = "returned"
       => pagesDashboard.papers # None
    /\ researchQuery.lastCall.op = "searchPapers"
       => \/ researchQuery.lastCall.fetched.issued
          \/ researchQuery.lastCall.result = "returned"

----------------------------------------------------------------------------
(* Claims about the auth state.                                            *)

\* C26: no token is kept after sign-out: once every callback has finished
\* (no getIdToken call is pending), user null implies token null
C26_NoTokenAfterSignOut ==
    idTokens = {} => (auth.user = None => auth.token = None)

\* C27: the Dashboard issues no request with a null token: the token of
\* the user was obtained before any of its calls
C27_TokenBeforeRequests ==
    lastFetch.fetched.issued => lastFetch.token # None

====
